---------------------------- MODULE Spec2Model ----------------------------
(***************************************************************************)
(* A model of the query tokenizer of tsk_lib (src/query/tokens.rs): the    *)
(* Token enum, the two classifiers Token::from(char) and Token::from(&str),*)
(* the rendering Into<String> and the display form fmt::Display.           *)
(*                                                                         *)
(* Text is a sequence of one-character strings: the slice "AND" is         *)
(* <<"A", "N", "D">> and the empty slice is << >>.                         *)
(***************************************************************************)
EXTENDS Integers, Sequences, FiniteSets, TLC

VARIABLES
    input,      \* the character or text slice handed to a classifier
    tok,        \* the Token the classifier returned (NoToken before the call)
    rendered,   \* the String Into<String>::into returned (NoString before)
    dpc,        \* where the display of tok stands: idle, fmt, to_string, overflow
    depth,      \* number of stack frames the display currently holds
    query,      \* the lexeme sequence a scanner walks left to right
    pos,        \* number of lexemes of query consumed so far
    tokens      \* the token sequence produced so far

vars == <<input, tok, rendered, dpc, depth, query, pos, tokens>>

----------------------------------------------------------------------------
(* Bounds of the model. *)

\* longest slice drawn over NumAlphabet
MaxNumLen == 4
\* longest slice drawn over WordAlphabet
MaxWordLen == 3
\* longest slice drawn over OpAlphabet
MaxOpLen == 2
\* longest lexeme sequence drawn over LexemePool
MaxLexemes == 2
\* stack frames available to a display before the stack is exhausted
StackLimit == 6

----------------------------------------------------------------------------
(* Text helpers. *)

Digits == {"0", "1", "2", "3", "4", "5", "6", "7", "8", "9"}
DigitSeq == <<"0", "1", "2", "3", "4", "5", "6", "7", "8", "9">>
DigitVal(c) == (CHOOSE i \in 1..10 : DigitSeq[i] = c) - 1

UpperSeq == <<"A", "B", "C", "D", "E", "F", "G", "H", "I", "J", "K", "L", "M",
              "N", "O", "P", "Q", "R", "S", "T", "U", "V", "W", "X", "Y", "Z">>
LowerSeq == <<"a", "b", "c", "d", "e", "f", "g", "h", "i", "j", "k", "l", "m",
              "n", "o", "p", "q", "r", "s", "t", "u", "v", "w", "x", "y", "z">>

\* ASCII lower-casing of one character (b | 32 on a letter)
Lower(c) == IF \E i \in 1..26 : UpperSeq[i] = c
            THEN LowerSeq[CHOOSE i \in 1..26 : UpperSeq[i] = c]
            ELSE c

LowerStr(s) == [i \in 1..Len(s) |-> Lower(s[i])]

\* all texts of length at most n over the alphabet A
Words(A, n) == UNION {[1..k -> A] : k \in 0..n}

\* s[from..to-1], the empty text when from >= to
Slice(s, from, to) == IF from >= to THEN << >> ELSE SubSeq(s, from, to - 1)

RECURSIVE SkipDigits(_, _)
\* the index of the first character at or after p that is no ASCII digit
SkipDigits(s, p) ==
    IF p <= Len(s) /\ s[p] \in Digits THEN SkipDigits(s, p + 1) ELSE p

RECURSIVE SkipSpaces(_, _)
\* the index of the first character at or after p that is no whitespace
SkipSpaces(s, p) ==
    IF p <= Len(s) /\ s[p] = " " THEN SkipSpaces(s, p + 1) ELSE p

RECURSIVE StripLeadingZeros(_)
StripLeadingZeros(ds) ==
    IF ds # << >> /\ Head(ds) = "0" THEN StripLeadingZeros(Tail(ds)) ELSE ds

RECURSIVE StripTrailingZeros(_)
StripTrailingZeros(ds) ==
    IF ds # << >> /\ ds[Len(ds)] = "0"
    THEN StripTrailingZeros(SubSeq(ds, 1, Len(ds) - 1))
    ELSE ds

RECURSIVE DigitsLess(_, _)
\* a < b for two digit texts read as decimal fractions 0.a and 0.b
DigitsLess(a, b) ==
    IF b = << >> THEN FALSE
    ELSE IF a = << >> THEN \E i \in 1..Len(b) : b[i] # "0"
    ELSE IF Head(a) # Head(b) THEN DigitVal(Head(a)) < DigitVal(Head(b))
    ELSE DigitsLess(Tail(a), Tail(b))

----------------------------------------------------------------------------
(* The Token enum. *)

UnitTags == {"GT", "LT", "GTE", "LTE", "EQ", "NE", "LIKE", "NLIKE",
             "AND", "OR", "LP", "RP", "EOF"}
PayloadTags == {"Str", "Float", "Date", "Unexpected"}
TokenTags == UnitTags \cup PayloadTags

Unit(tag) == [tag |-> tag]
Str(s) == [tag |-> "Str", val |-> s]
Float(num) == [tag |-> "Float", val |-> num]
Date(d) == [tag |-> "Date", val |-> d]
Unexpected(s) == [tag |-> "Unexpected", val |-> s]

NoToken == [tag |-> "none"]
NoString == [none |-> TRUE]

----------------------------------------------------------------------------
(* Token::from(char). *)

\* From_char with the '^' arm missing
From_char_CaretUnmatched(c) ==
    CASE c = "(" -> Unit("LP")
      [] c = ")" -> Unit("RP")
      [] c = ">" -> Unit("GT")
      [] c = "<" -> Unit("LT")
      [] c = "=" -> Unit("EQ")
      [] c = "~" -> Unit("LIKE")
      [] OTHER   -> Unexpected(<<c>>)

\* From_char with the two parenthesis arms exchanged
From_char_ParensSwapped(c) ==
    CASE c = "(" -> Unit("RP")
      [] c = ")" -> Unit("LP")
      [] c = ">" -> Unit("GT")
      [] c = "<" -> Unit("LT")
      [] c = "=" -> Unit("EQ")
      [] c = "^" -> Unit("LIKE")
      [] c = "~" -> Unit("LIKE")
      [] OTHER   -> Unexpected(<<c>>)

From_char(c) ==
    CASE c = "(" -> Unit("LP")
      [] c = ")" -> Unit("RP")
      [] c = ">" -> Unit("GT")
      [] c = "<" -> Unit("LT")
      [] c = "=" -> Unit("EQ")
      [] c = "^" -> Unit("LIKE")
      [] c = "~" -> Unit("LIKE")
      [] OTHER   -> Unexpected(<<c>>)

----------------------------------------------------------------------------
(* s.parse::<f64>(), the standard library's decimal-to-float conversion.   *)
(* Grammar (core::num::dec2flt):                                           *)
(*   Float  ::= Sign? ( 'inf' | 'infinity' | 'nan' | Number )              *)
(*   Number ::= ( Digit+ | Digit+ '.' Digit* | Digit* '.' Digit+ ) Exp?    *)
(*   Exp    ::= 'e' Sign? Digit+                                           *)
(* with the three words and the 'e' matched without regard to case.        *)
(* A finite value is kept as its exact decimal: the significant digits     *)
(* ds (no leading or trailing zero) and the magnitude mag, standing for    *)
(* 0.ds * 10^mag; two decimals of at most 15 significant digits in the     *)
(* normal range denote the same f64 exactly when these agree.              *)

ParseErr == [ok |-> FALSE]

\* above 0.17976931348623158 * 10^F64MaxMag a decimal rounds to infinity
F64MaxMag == 309
F64MaxDigits == <<"1", "7", "9", "7", "6", "9", "3", "1", "3", "4", "8",
                  "6", "2", "3", "1", "5", "8">>
\* at or below 0.24703282292062327 * 10^F64MinMag a decimal rounds to zero
F64MinMag == -323
F64MinDigits == <<"2", "4", "7", "0", "3", "2", "8", "2", "2", "9", "2",
                  "0", "6", "2", "3", "2", "7">>
\* the exponent accumulator stops growing once it has reached this value
ExpSaturate == 65536

F64Zero(neg) == [kind |-> "finite", neg |-> neg, ds |-> << >>, mag |-> 0]
F64Inf(neg) == [kind |-> "inf", neg |-> neg]
F64NaN == [kind |-> "nan"]

RECURSIVE ExpDigits(_, _, _, _)
\* the exponent digits s[p..q-1] accumulated onto acc, saturating
ExpDigits(s, p, q, acc) ==
    IF p >= q THEN acc
    ELSE ExpDigits(s, p + 1, q,
                   IF acc < ExpSaturate THEN 10 * acc + DigitVal(s[p]) ELSE acc)

\* the f64 nearest to (-1)^neg * 0.all * 10^(Len(all) - fracLen + exp)
F64OfDecimal(neg, all, fracLen, exp) ==
    LET lead == StripLeadingZeros(all)
        ds   == StripTrailingZeros(lead)
        mag  == Len(lead) - fracLen + exp
    IN  IF ds = << >> THEN F64Zero(neg)
        ELSE IF mag > F64MaxMag
                \/ (mag = F64MaxMag /\ ~DigitsLess(ds, F64MaxDigits))
             THEN F64Inf(neg)
        ELSE IF mag < F64MinMag
                \/ (mag = F64MinMag /\ ~DigitsLess(F64MinDigits, ds))
             THEN F64Zero(neg)
        ELSE [kind |-> "finite", neg |-> neg, ds |-> ds, mag |-> mag]

\* parse_inf_nan: the text after the sign is one of the three words
ParseInfNan(s, start, neg) ==
    LET w == LowerStr(Slice(s, start, Len(s) + 1))
    IN  IF w = <<"n", "a", "n">> THEN [ok |-> TRUE, val |-> F64NaN]
        ELSE IF w = <<"i", "n", "f">>
                \/ w = <<"i", "n", "f", "i", "n", "i", "t", "y">>
             THEN [ok |-> TRUE, val |-> F64Inf(neg)]
        ELSE ParseErr

\* parse_number: the text after the sign is a Number, read in full
ParseNumber(s, start, neg) ==
    LET p1      == SkipDigits(s, start)
        hasDot  == p1 <= Len(s) /\ s[p1] = "."
        p2      == IF hasDot THEN SkipDigits(s, p1 + 1) ELSE p1
        int     == Slice(s, start, p1)
        frac    == IF hasDot THEN Slice(s, p1 + 1, p2) ELSE << >>
        hasExp  == p2 <= Len(s) /\ s[p2] \in {"e", "E"}
        hasSign == hasExp /\ p2 + 1 <= Len(s) /\ s[p2 + 1] \in {"-", "+"}
        q       == IF hasSign THEN p2 + 2 ELSE p2 + 1
        p3      == IF hasExp THEN SkipDigits(s, q) ELSE p2
        mant    == ExpDigits(s, q, p3, 0)
        exp     == IF ~hasExp THEN 0
                   ELSE IF hasSign /\ s[p2 + 1] = "-" THEN 0 - mant ELSE mant
    IN  IF Len(int) + Len(frac) = 0 THEN ParseErr
        ELSE IF hasExp /\ p3 = q THEN ParseErr
        ELSE IF p3 # Len(s) + 1 THEN ParseErr
        ELSE [ok |-> TRUE, val |-> F64OfDecimal(neg, int \o frac, Len(frac), exp)]

\* dec2flt: Ok(value) or Err
ParseF64(s) ==
    IF s = << >> THEN ParseErr
    ELSE LET neg   == s[1] = "-"
             start == IF s[1] \in {"-", "+"} THEN 2 ELSE 1
         IN  IF start > Len(s) THEN ParseErr
             ELSE LET num == ParseNumber(s, start, neg)
                  IN  IF num.ok THEN num ELSE ParseInfNan(s, start, neg)

----------------------------------------------------------------------------
(* Local.datetime_from_str(s, format), chrono's strftime-driven parser.    *)
(* A format is the item list StrftimeItems yields for it: %F is            *)
(* year "-" month "-" day; a blank in the format is a Space item, which    *)
(* skips any run of whitespace (an empty run too); a numeric item skips    *)
(* leading whitespace and then takes between one and `width` digits (the   *)
(* year also takes a sign, and then every digit that follows); %P and %p   *)
(* both read two letters, "am" or "pm", in either case.                    *)

Lit(c) == [k |-> "lit", c |-> c]
Space == [k |-> "space"]
Num(f, w) == [k |-> "num", f |-> f, width |-> w]
AmPm == [k |-> "ampm"]

PercentF == <<Num("year", 4), Lit("-"), Num("month", 2), Lit("-"), Num("day", 2)>>

\* "%F %I:%M %P", "%F %I:%M %p", "%F %H:%M"
DATE_FORMATS ==
    << PercentF \o <<Space, Num("hour12", 2), Lit(":"), Num("minute", 2), Space, AmPm>>,
       PercentF \o <<Space, Num("hour12", 2), Lit(":"), Num("minute", 2), Space, AmPm>>,
       PercentF \o <<Space, Num("hour", 2), Lit(":"), Num("minute", 2)>> >>

\* NaiveDate's range of years
MinYear == -262144
MaxYear == 262143

RECURSIVE NatValue(_, _, _, _)
\* the decimal value of the digits s[p..q-1] accumulated onto acc
NatValue(s, p, q, acc) ==
    IF p >= q THEN acc ELSE NatValue(s, p + 1, q, 10 * acc + DigitVal(s[p]))

Min(a, b) == IF a < b THEN a ELSE b

\* every format sets each field once, so a field's earlier value is never read
NewParsed == [year |-> 0, month |-> 0, day |-> 0,
              hour_div_12 |-> 0, hour_mod_12 |-> 0, minute |-> 0]

\* Parsed::set_year, set_month, set_day, set_hour12, set_hour, set_minute
SetField(parsed, f, v) ==
    CASE f = "year"   -> [ok |-> TRUE, parsed |-> [parsed EXCEPT !.year = v]]
      [] f = "month"  -> [ok |-> TRUE, parsed |-> [parsed EXCEPT !.month = v]]
      [] f = "day"    -> [ok |-> TRUE, parsed |-> [parsed EXCEPT !.day = v]]
      [] f = "minute" -> [ok |-> TRUE, parsed |-> [parsed EXCEPT !.minute = v]]
      [] f = "hour12" ->
            IF v < 1 \/ v > 12 THEN ParseErr
            ELSE [ok |-> TRUE, parsed |-> [parsed EXCEPT !.hour_mod_12 = v % 12]]
      [] f = "hour"   ->
            [ok |-> TRUE, parsed |-> [parsed EXCEPT !.hour_div_12 = v \div 12,
                                                    !.hour_mod_12 = v % 12]]

RECURSIVE ParseItems(_, _, _, _, _)
\* format::parse from item k on, the text read up to (not including) index p
ParseItems(s, p, items, k, parsed) ==
    IF k > Len(items)
    THEN IF p = Len(s) + 1 THEN [ok |-> TRUE, parsed |-> parsed] ELSE ParseErr
    ELSE LET it == items[k] IN
      CASE it.k = "lit" ->
             IF p <= Len(s) /\ s[p] = it.c
             THEN ParseItems(s, p + 1, items, k + 1, parsed)
             ELSE ParseErr
        [] it.k = "space" ->
             ParseItems(s, SkipSpaces(s, p), items, k + 1, parsed)
        [] it.k = "num" ->
             LET p0      == SkipSpaces(s, p)
                 hasSign == it.f = "year" /\ p0 <= Len(s) /\ s[p0] \in {"-", "+"}
                 d0      == IF hasSign THEN p0 + 1 ELSE p0
                 run     == SkipDigits(s, d0)
                 q       == IF hasSign THEN run ELSE Min(run, d0 + it.width)
                 abs     == NatValue(s, d0, q, 0)
                 v       == IF hasSign /\ s[p0] = "-" THEN 0 - abs ELSE abs
                 r       == SetField(parsed, it.f, v)
             IN  IF q = d0 \/ ~r.ok THEN ParseErr
                 ELSE ParseItems(s, q, items, k + 1, r.parsed)
        [] it.k = "ampm" ->
             IF p + 1 <= Len(s) /\ Lower(s[p]) \in {"a", "p"} /\ Lower(s[p + 1]) = "m"
             THEN ParseItems(s, p + 2, items, k + 1,
                     [parsed EXCEPT !.hour_div_12 = IF Lower(s[p]) = "p" THEN 1 ELSE 0])
             ELSE ParseErr

IsLeapYear(y) == (y % 4 = 0 /\ y % 100 # 0) \/ y % 400 = 0

DaysInMonth(y, m) ==
    IF m = 2 THEN (IF IsLeapYear(y) THEN 29 ELSE 28)
    ELSE IF m \in {4, 6, 9, 11} THEN 30 ELSE 31

\* Parsed::to_datetime_with_timezone(&Local): the date and the time of day
\* must exist; the zone is taken to resolve every local time to one instant.
ToDateTime(parsed) ==
    IF /\ parsed.year \in MinYear..MaxYear
       /\ parsed.month \in 1..12
       /\ parsed.day \in 1..DaysInMonth(parsed.year, parsed.month)
       /\ parsed.hour_div_12 \in 0..1
       /\ parsed.minute \in 0..59
    THEN [ok |-> TRUE,
          val |-> [year |-> parsed.year, month |-> parsed.month, day |-> parsed.day,
                   hour |-> parsed.hour_div_12 * 12 + parsed.hour_mod_12,
                   minute |-> parsed.minute, second |-> 0]]
    ELSE ParseErr

Datetime_from_str(s, format) ==
    LET r == ParseItems(s, 1, format, 1, NewParsed)
    IN  IF r.ok THEN ToDateTime(r.parsed) ELSE ParseErr

----------------------------------------------------------------------------
(* Token::from(&str). *)

RECURSIVE TryFormats_SkipLast(_, _)
\* TryFormats with a loop that stops one format early
TryFormats_SkipLast(s, i) ==
    IF i > Len(DATE_FORMATS) - 1 THEN ParseErr
    ELSE LET date == Datetime_from_str(s, DATE_FORMATS[i])
         IN  IF date.ok THEN date ELSE TryFormats_SkipLast(s, i + 1)

RECURSIVE TryFormats(_, _)
\* the loop over DATE_FORMATS from format i on: the first Ok, else Err
TryFormats(s, i) ==
    IF i > Len(DATE_FORMATS) THEN ParseErr
    ELSE LET date == Datetime_from_str(s, DATE_FORMATS[i])
         IN  IF date.ok THEN date ELSE TryFormats(s, i + 1)

\* MatchTable with the keywords compared without regard to case
MatchTable_IgnoreCase(s) ==
    CASE s = <<">", "=">> -> Unit("GTE")
      [] s = <<"<", "=">> -> Unit("LTE")
      [] s = <<"^", "=">> -> Unit("NE")
      [] s = <<"!", "=">> -> Unit("NE")
      [] s = <<"^", "^">> -> Unit("NLIKE")
      [] s = <<"!", "~">> -> Unit("NLIKE")
      [] s = << >>        -> Unit("EOF")
      [] LowerStr(s) = <<"e", "o", "f">> -> Unit("EOF")
      [] LowerStr(s) = <<"a", "n", "d">> -> Unit("AND")
      [] LowerStr(s) = <<"o", "r">> -> Unit("OR")
      [] OTHER -> Str(s)

\* MatchTable with a fallback that lower-cases the text it keeps
MatchTable_LowerFallback(s) ==
    CASE s = <<">", "=">> -> Unit("GTE")
      [] s = <<"<", "=">> -> Unit("LTE")
      [] s = <<"^", "=">> -> Unit("NE")
      [] s = <<"!", "=">> -> Unit("NE")
      [] s = <<"^", "^">> -> Unit("NLIKE")
      [] s = <<"!", "~">> -> Unit("NLIKE")
      [] s = << >>        -> Unit("EOF")
      [] s = <<"E", "O", "F">> -> Unit("EOF")
      [] s = <<"A", "N", "D">> \/ s = <<"a", "n", "d">> -> Unit("AND")
      [] s = <<"O", "R">> \/ s = <<"o", "r">> -> Unit("OR")
      [] OTHER -> Str(LowerStr(s))

\* MatchTable with the one-character operators added to the table
MatchTable_WithSingles(s) ==
    CASE s = <<">", "=">> -> Unit("GTE")
      [] s = <<"<", "=">> -> Unit("LTE")
      [] s = <<">">>      -> Unit("GT")
      [] s = <<"<">>      -> Unit("LT")
      [] s = <<"=">>      -> Unit("EQ")
      [] s = <<"~">>      -> Unit("LIKE")
      [] s = <<"^", "=">> -> Unit("NE")
      [] s = <<"!", "=">> -> Unit("NE")
      [] s = <<"^", "^">> -> Unit("NLIKE")
      [] s = <<"!", "~">> -> Unit("NLIKE")
      [] s = << >>        -> Unit("EOF")
      [] s = <<"E", "O", "F">> -> Unit("EOF")
      [] s = <<"A", "N", "D">> \/ s = <<"a", "n", "d">> -> Unit("AND")
      [] s = <<"O", "R">> \/ s = <<"o", "r">> -> Unit("OR")
      [] OTHER -> Str(s)

\* the match on the slice, reached when it is neither a number nor a date
MatchTable(s) ==
    CASE s = <<">", "=">> -> Unit("GTE")
      [] s = <<"<", "=">> -> Unit("LTE")
      [] s = <<"^", "=">> -> Unit("NE")
      [] s = <<"!", "=">> -> Unit("NE")
      [] s = <<"^", "^">> -> Unit("NLIKE")
      [] s = <<"!", "~">> -> Unit("NLIKE")
      [] s = << >>        -> Unit("EOF")
      [] s = <<"E", "O", "F">> -> Unit("EOF")
      [] s = <<"A", "N", "D">> \/ s = <<"a", "n", "d">> -> Unit("AND")
      [] s = <<"O", "R">> \/ s = <<"o", "r">> -> Unit("OR")
      [] OTHER -> Str(s)

\* From_str with the number read by an integer parse: a sign and digits only
From_str_IntegerParse(s) ==
    LET start == IF s # << >> /\ s[1] \in {"-", "+"} THEN 2 ELSE 1 IN
    IF start <= Len(s) /\ SkipDigits(s, start) = Len(s) + 1
    THEN Float(ParseF64(s).val)
    ELSE LET date == TryFormats(s, 1) IN
         IF date.ok THEN Date(date.val)
         ELSE MatchTable(s)

From_str(s) ==
    LET num == ParseF64(s) IN
    IF num.ok THEN Float(num.val)
    ELSE LET date == TryFormats(s, 1) IN
         IF date.ok THEN Date(date.val)
         ELSE MatchTable(s)

----------------------------------------------------------------------------
(* Into<String> for Token.  The String "(<category>, <field>)" is kept as  *)
(* its two fields; format!'s "{}" of a String is the String itself, of an  *)
(* f64 or a DateTime<Local> it is that value's Display output.             *)

Rendering(category, field) == [category |-> category, field |-> field]
DisplayF64(num) == [display |-> "f64", of |-> num]
DisplayDateTime(d) == [display |-> "DateTime<Local>", of |-> d]

Into(t) ==
    CASE t.tag = "Str"   -> Rendering("String", t.val)
      [] t.tag = "Date"  -> Rendering("Date", DisplayDateTime(t.val))
      [] t.tag = "Float" -> Rendering("Float", DisplayF64(t.val))
      [] t.tag = "GT"    -> Rendering("GT", <<">">>)
      [] t.tag = "LT"    -> Rendering("LT", <<"<">>)
      [] t.tag = "GTE"   -> Rendering("GTE", <<">", "=">>)
      [] t.tag = "LTE"   -> Rendering("LTE", <<"<", "=">>)
      [] t.tag = "EQ"    -> Rendering("EQ", <<"=">>)
      [] t.tag = "NE"    -> Rendering("NE", <<"!", "=">>)
      [] t.tag = "LIKE"  -> Rendering("LIKE", <<"~">>)
      [] t.tag = "NLIKE" -> Rendering("LIKE", <<"!", "~">>)
      [] t.tag = "AND"   -> Rendering("AND", <<"A", "N", "D">>)
      [] t.tag = "OR"    -> Rendering("OR", <<"O", "R">>)
      [] t.tag = "LP"    -> Rendering("LP", <<"'", "(", "'">>)
      [] t.tag = "RP"    -> Rendering("RP", <<"'", ")", "'">>)
      [] t.tag = "EOF"   -> Rendering("EOF", <<"E", "O", "F">>)
      [] t.tag = "Unexpected" -> Rendering("Unexpected", t.val)

----------------------------------------------------------------------------
(* The inputs the classifiers are run on. *)

NumAlphabet == {"0", "1", ".", "-", "+", "e", "E"}
WordAlphabet == {"A", "N", "D", "O", "R", "E", "F",
                 "a", "n", "d", "o", "r", "i", "f"}
OpAlphabet == {">", "<", "=", "^", "!", "~", "(", ")"}

Date2018 == <<"2", "0", "1", "8", "-", "0", "7", "-", "0", "4">>
Noon == <<" ", "1", "2", ":", "0", "0">>

\* the slices the tests and the specification name
ExampleSlices ==
    { <<"1", ".", "0">>, <<"5">>, <<"-", "3", ".", "2", "5">>,
      <<"h", "e", "l", "l", "o">>, <<"h", "i", "g", "h">>, <<"d", "u", "e">>,
      <<"p", "r", "i", "o", "r", "i", "t", "y">>,
      <<"5", "a", "b", "c">>, <<"1", ".", "0", "x">>,
      <<"i", "n", "f">>, <<"n", "a", "n">>, <<"N", "a", "N">>,
      <<"i", "n", "f", "i", "n", "i", "t", "y">>,
      <<"-", "i", "n", "f">>, <<"+", "N", "A", "N">>,
      <<"I", "n", "f", "i", "n", "i", "t", "y">>,
      <<"e", "o", "f">>, <<"a", "N", "D">>,
      <<"1", "e", "9", "9", "9">>, <<"1", "e", "-", "9", "9", "9">>,
      <<"1", "e", "3", "0", "8">>, <<"2", "e", "3", "0", "8">>,
      Date2018, Date2018 \o Noon,
      Date2018 \o Noon \o <<" ", "P", "M">>,
      Date2018 \o Noon \o <<" ", "p", "m">>,
      <<"-">> \o Date2018 \o Noon,
      <<"2", "0", "1", "6", "-", "2", "-", "2", "9", " ", "2", "3", ":", "5", "9">> }

\* slices shaped like a date-time, well formed or nearly so
DateLikeSlices ==
    { <<"2", "0", "1", "8", "-">> \o mo \o <<"-">> \o d \o sep \o h \o <<":">> \o mi \o suf :
        mo  \in {<<"0", "7">>, <<"0", "2">>, <<"1", "3">>},
        d   \in {<<"0", "4">>, <<"3", "0">>},
        sep \in {<<" ">>, << >>},
        h   \in {<<"1", "2">>, <<"0", "0">>, <<"1", "3">>, <<"9">>},
        mi  \in {<<"0", "0">>, <<"6", "0">>},
        suf \in {<< >>, <<" ", "p", "m">>, <<" ", "P", "M">>, <<" ", "A", "m">>,
                 <<"a", "m">>, <<" ", "x", "m">>, <<" ", "p">>} }

Slices ==
    Words(NumAlphabet, MaxNumLen) \cup Words(WordAlphabet, MaxWordLen)
      \cup Words(OpAlphabet, MaxOpLen) \cup ExampleSlices \cup DateLikeSlices

Chars == NumAlphabet \cup WordAlphabet \cup OpAlphabet \cup {" ", "%", "5", ":", "'"}

CharInput(c) == [kind |-> "char", c |-> c]
StrInput(s) == [kind |-> "str", s |-> s]
NoInput == [kind |-> "none"]

Inputs == {CharInput(c) : c \in Chars} \cup {StrInput(s) : s \in Slices}

----------------------------------------------------------------------------
(* A scanner in front of the classifiers: it walks the query's lexemes     *)
(* left to right, hands a standalone punctuation character to              *)
(* Token::from(char) and every other lexeme to Token::from(&str), and      *)
(* appends the result.                                                     *)

Punctuation == OpAlphabet \cup {"%"}

IsPunctuation(lexeme) == Len(lexeme) = 1 /\ lexeme[1] \in Punctuation

Classify(lexeme) ==
    IF IsPunctuation(lexeme) THEN From_char(lexeme[1]) ELSE From_str(lexeme)

ExampleQuery ==
    << <<"p", "r", "i", "o", "r", "i", "t", "y">>, <<"=">>, <<"h", "i", "g", "h">>,
       <<"A", "N", "D">>, <<"(">>, <<"d", "u", "e">>, <<"<">>,
       Date2018 \o Noon, <<")">> >>

LexemePool ==
    { ExampleQuery[i] : i \in 1..Len(ExampleQuery) }
      \cup { <<">", "=">>, <<"5">>, <<"%">>, <<"~">>, <<"o", "r">>, << >> }

Queries == Words(LexemePool, MaxLexemes) \cup {ExampleQuery}

----------------------------------------------------------------------------
(* Actions. *)

\* Token::from(c) on the input character
FromChar ==
    /\ input.kind = "char"
    /\ tok = NoToken
    /\ tok' = From_char(input.c)
    /\ UNCHANGED <<input, rendered, dpc, depth, query, pos, tokens>>

\* Token::from(s) on the input slice
FromStr ==
    /\ input.kind = "str"
    /\ tok = NoToken
    /\ tok' = From_str(input.s)
    /\ UNCHANGED <<input, rendered, dpc, depth, query, pos, tokens>>

\* let text: String = tok.into()
IntoString ==
    /\ tok # NoToken
    /\ rendered = NoString
    /\ rendered' = Into(tok)
    /\ UNCHANGED <<input, tok, dpc, depth, query, pos, tokens>>

\* a caller formats tok with "{}": Display::fmt is entered
DisplayCall ==
    /\ tok # NoToken
    /\ dpc = "idle"
    /\ dpc' = "fmt"
    /\ depth' = 1
    /\ UNCHANGED <<input, tok, rendered, query, pos, tokens>>

\* fmt evaluates the argument self.to_string() before it writes anything;
\* Token has no to_string of its own, so this is ToString::to_string, which
\* the standard library implements for every Display type
FmtCallsToString ==
    /\ dpc = "fmt"
    /\ depth < StackLimit
    /\ dpc' = "to_string"
    /\ depth' = depth + 1
    /\ UNCHANGED <<input, tok, rendered, query, pos, tokens>>

\* ToString::to_string formats self with "{}" into a new String: fmt again
ToStringCallsFmt ==
    /\ dpc = "to_string"
    /\ depth < StackLimit
    /\ dpc' = "fmt"
    /\ depth' = depth + 1
    /\ UNCHANGED <<input, tok, rendered, query, pos, tokens>>

\* the next call finds no stack left: the process is aborted
StackExhausted ==
    /\ dpc \in {"fmt", "to_string"}
    /\ depth >= StackLimit
    /\ dpc' = "overflow"
    /\ UNCHANGED <<input, tok, rendered, depth, query, pos, tokens>>

\* the scanner classifies the next lexeme of the query
Scan ==
    /\ pos < Len(query)
    /\ tokens' = Append(tokens, Classify(query[pos + 1]))
    /\ pos' = pos + 1
    /\ UNCHANGED <<input, tok, rendered, dpc, depth, query>>

----------------------------------------------------------------------------
(* Specifications. *)

Idle ==
    /\ rendered = NoString
    /\ dpc = "idle"
    /\ depth = 0

\* one classifier call on one input
Init ==
    /\ input \in Inputs
    /\ tok = NoToken
    /\ Idle
    /\ query = << >>
    /\ pos = 0
    /\ tokens = << >>

Next == FromChar \/ FromStr

Spec == Init /\ [][Next]_vars

\* a classifier call, then the token's rendering and its display
NextRender ==
    \/ FromChar
    \/ FromStr
    \/ IntoString
    \/ DisplayCall
    \/ FmtCallsToString
    \/ ToStringCallsFmt
    \/ StackExhausted

SpecRender == Init /\ [][NextRender]_vars

\* a scanner walking one query
InitScan ==
    /\ input = NoInput
    /\ tok = NoToken
    /\ Idle
    /\ query \in Queries
    /\ pos = 0
    /\ tokens = << >>

NextScan == Scan

SpecScan == InitScan /\ [][NextScan]_vars

----------------------------------------------------------------------------
(* Properties. *)

CalledOnStr == input.kind = "str" /\ tok # NoToken
CalledOnChar == input.kind = "char" /\ tok # NoToken

F64Of(neg, ds, mag) == [kind |-> "finite", neg |-> neg, ds |-> ds, mag |-> mag]

\* C1: a slice that parses in full as an f64 is classified as Float of that
\* value, never as Date, an operator or keyword, EOF or Str; the tests' "1.0"
\* and "5" and the specification's "-3.25" give 1.0, 5.0 and -3.25.
NumericPrecedence ==
    CalledOnStr =>
        /\ ParseF64(input.s).ok => tok = Float(ParseF64(input.s).val)
        /\ input.s = <<"1", ".", "0">> => tok = Float(F64Of(FALSE, <<"1">>, 1))
        /\ input.s = <<"5">> => tok = Float(F64Of(FALSE, <<"5">>, 1))
        /\ input.s = <<"-", "3", ".", "2", "5">>
              => tok = Float(F64Of(TRUE, <<"3", "2", "5">>, 1))

\* C1 witness: a number with a fractional part has been classified as Float
NumericPrecedenceWitness ==
    /\ CalledOnStr
    /\ input.s = <<"1", ".", "0">>
    /\ tok.tag = "Float"

IsDate(s) == \E i \in 1..Len(DATE_FORMATS) : Datetime_from_str(s, DATE_FORMATS[i]).ok

TableKeys ==
    { <<">", "=">>, <<"<", "=">>, <<"^", "=">>, <<"!", "=">>, <<"^", "^">>,
      <<"!", "~">>, << >>, <<"E", "O", "F">>, <<"A", "N", "D">>,
      <<"a", "n", "d">>, <<"O", "R">>, <<"o", "r">> }

\* C2: a slice that is neither a number nor a date is looked up exactly:
\* ">=" GTE, "<=" LTE, "^=" and "!=" NE, "^^" and "!~" NLIKE, "" and "EOF"
\* EOF, "AND"/"and" AND, "OR"/"or" OR; every other slice, other casings of
\* the keywords included, is Str carrying the slice unchanged.
TableAndFallback ==
    (CalledOnStr /\ ~ParseF64(input.s).ok /\ ~IsDate(input.s)) =>
        /\ input.s = <<">", "=">> => tok = Unit("GTE")
        /\ input.s = <<"<", "=">> => tok = Unit("LTE")
        /\ input.s \in {<<"^", "=">>, <<"!", "=">>} => tok = Unit("NE")
        /\ input.s \in {<<"^", "^">>, <<"!", "~">>} => tok = Unit("NLIKE")
        /\ input.s \in {<< >>, <<"E", "O", "F">>} => tok = Unit("EOF")
        /\ input.s \in {<<"A", "N", "D">>, <<"a", "n", "d">>} => tok = Unit("AND")
        /\ input.s \in {<<"O", "R">>, <<"o", "r">>} => tok = Unit("OR")
        /\ input.s \notin TableKeys => tok = Str(input.s)

\* C2 witness: another casing of a keyword has fallen through to Str
TableAndFallbackWitness ==
    /\ CalledOnStr
    /\ input.s = <<"A", "n", "d">>
    /\ tok = Str(<<"A", "n", "d">>)

\* C3: '(' LP, ')' RP, '>' GT, '<' LT, '=' EQ, '^' and '~' LIKE; every other
\* character gives Unexpected carrying that one character.
CharClassification ==
    CalledOnChar =>
        /\ input.c = "(" => tok = Unit("LP")
        /\ input.c = ")" => tok = Unit("RP")
        /\ input.c = ">" => tok = Unit("GT")
        /\ input.c = "<" => tok = Unit("LT")
        /\ input.c = "=" => tok = Unit("EQ")
        /\ input.c \in {"^", "~"} => tok = Unit("LIKE")
        /\ input.c \notin {"(", ")", ">", "<", "=", "^", "~"}
              => tok = Unexpected(<<input.c>>)

\* C3 witness: the caret has been classified as LIKE
CharClassificationWitness ==
    /\ CalledOnChar
    /\ input.c = "^"
    /\ tok = Unit("LIKE")

FirstFormat(s) ==
    CHOOSE i \in 1..Len(DATE_FORMATS) :
        /\ Datetime_from_str(s, DATE_FORMATS[i]).ok
        /\ \A j \in 1..(i - 1) : ~Datetime_from_str(s, DATE_FORMATS[j]).ok

DisplayDoesNotAbort == dpc # "overflow"

SampleToken(tag) == IF tag \in UnitTags THEN Unit(tag) ELSE [tag |-> tag, val |-> << >>]

\* C6: the rendering's category name is that of the token's own variant and
\* of no other variant; its second field is the payload for Str, Float, Date
\* and Unexpected.
CategoryIdentifiesVariant ==
    rendered # NoString =>
        /\ \A other \in TokenTags \ {tok.tag} :
               rendered.category # Into(SampleToken(other)).category
        /\ tok.tag \in {"Str", "Unexpected"} => rendered.field = tok.val
        /\ tok.tag = "Float" => rendered.field = DisplayF64(tok.val)
        /\ tok.tag = "Date" => rendered.field = DisplayDateTime(tok.val)

\* the slice is a number in decimal syntax: an optional sign, digits with an
\* optional fractional part, an optional exponent
IsDecimalSyntax(s) ==
    /\ s # << >>
    /\ LET start == IF s[1] \in {"-", "+"} THEN 2 ELSE 1
       IN  start <= Len(s) /\ ParseNumber(s, start, FALSE).ok

\* C7: a slice is classified as Float exactly when the whole of it is a
\* number in decimal syntax; words such as "inf" and "nan" are not.
FloatIffDecimalSyntax ==
    CalledOnStr => (tok.tag = "Float" <=> IsDecimalSyntax(input.s))

ExpectedTokens ==
    << Str(<<"p", "r", "i", "o", "r", "i", "t", "y">>), Unit("EQ"),
       Str(<<"h", "i", "g", "h">>), Unit("AND"), Unit("LP"),
       Str(<<"d", "u", "e">>), Unit("LT"),
       Date([year |-> 2018, month |-> 7, day |-> 4,
             hour |-> 12, minute |-> 0, second |-> 0]),
       Unit("RP") >>

\* C8: after any number of scanner steps there is one token per consumed
\* lexeme, the i-th token being the classification of the i-th lexeme alone;
\* the example query yields the example token sequence.
OrderPreserving ==
    /\ Len(tokens) = pos
    /\ \A i \in 1..pos : tokens[i] = Classify(query[i])
    /\ (query = ExampleQuery /\ pos = Len(ExampleQuery)) => tokens = ExpectedTokens
    /\ \A i \in 1..pos :
          \A k \in 1..Len(ExampleQuery) :
              query[i] = ExampleQuery[k] => tokens[i] = ExpectedTokens[k]

\* C8 witness: the example query has been consumed in full
OrderPreservingWitness ==
    /\ query = ExampleQuery
    /\ pos = Len(ExampleQuery)
    /\ tokens = ExpectedTokens

\* C9: every call returns exactly one well-formed Token, and a Str or an
\* Unexpected carries the input in full.
Totality ==
    /\ CalledOnStr =>
          /\ tok.tag \in TokenTags
          /\ DOMAIN tok = (IF tok.tag \in PayloadTags THEN {"tag", "val"} ELSE {"tag"})
          /\ tok.tag \in {"Str", "Unexpected"} => tok.val = input.s
    /\ CalledOnChar =>
          /\ tok.tag \in TokenTags
          /\ DOMAIN tok = (IF tok.tag \in PayloadTags THEN {"tag", "val"} ELSE {"tag"})
          /\ tok.tag \in {"Str", "Unexpected"} => tok.val = <<input.c>>

\* C9 witness: a slice on which the number parse and every date parse fail
\* has come out as Str with its text intact
TotalityWitness ==
    /\ CalledOnStr
    /\ input.s = <<"1", ".", "0", "x">>
    /\ ~ParseF64(input.s).ok
    /\ ~IsDate(input.s)
    /\ tok = Str(input.s)

CharResults == {"LP", "RP", "GT", "LT", "EQ", "LIKE", "Unexpected"}
StrResults == {"Float", "Date", "GTE", "LTE", "NE", "NLIKE", "EOF", "AND", "OR", "Str"}

\* C10: Token::from(char) returns only LP, RP, GT, LT, EQ, LIKE or Unexpected
\* and Token::from(&str) none of these; a one-character operator passed as
\* text is Str carrying that character.
DisjointResults ==
    /\ CalledOnChar => tok.tag \in CharResults
    /\ CalledOnStr => tok.tag \in StrResults /\ tok.tag \notin CharResults
    /\ (CalledOnStr /\ Len(input.s) = 1
          /\ input.s[1] \in {">", "<", "=", "~", "^", "(", ")"}) => tok = Str(input.s)

\* C10 witness: ">" passed as text has been classified as Str
DisjointResultsWitness ==
    /\ CalledOnStr
    /\ input.s = <<">">>
    /\ tok = Str(<<">">>)

=============================================================================
